---- MODULE Spec2Model ----
(***************************************************************************)
(* A model of git-ops: GitPuller::pull (src/src/pull.rs),                  *)
(* GitCheckout::checkout_branch (src/src/checkout.rs) and the two          *)
(* credential callbacks (src/src/git/ssh.rs, src/src/pull.rs), run against *)
(* an abstract libgit2 repository: local branches, remote-tracking         *)
(* branches, HEAD and the working tree.                                    *)
(***************************************************************************)
EXTENDS Integers, Sequences, FiniteSets, TLC

\* ------------------------------------------------------------------------
\* Bounds
\* ------------------------------------------------------------------------

\* Number of commits in the object database.
NumCommits == 3

\* Longest private_key_paths vector an SshConfig is constructed with.
MaxKeys == 2

\* ------------------------------------------------------------------------
\* Commits and ancestry
\* ------------------------------------------------------------------------

\* The value of a reference that does not exist (find_reference is Err).
Absent == 0

Commits == 1..NumCommits

\* Commit c's parent; commit 1 is the root.  Commits 2 and 3 are siblings,
\* so the graph has ahead/behind pairs (1,2), (1,3) and a diverged pair (2,3).
Parent(c) == c \div 2

RECURSIVE MergeBase(_, _)
MergeBase(a, b) ==
    IF a = b THEN a
    ELSE IF a > b THEN MergeBase(Parent(a), b)
    ELSE MergeBase(a, Parent(b))

\* a is an ancestor of d or equal to it.
IsAncestor(a, d) == MergeBase(a, d) = a

StrictlyBehind(ours, theirs) == ours # theirs /\ IsAncestor(ours, theirs)

Diverged(ours, theirs) == ~IsAncestor(ours, theirs) /\ ~IsAncestor(theirs, ours)

\* Mutant: only equal tips are up to date, so a branch ahead of its remote
\* is reported as needing a merge.
MergeAnalysisAheadIsNormal(ours, theirs) ==
    LET base == MergeBase(ours, theirs) IN
    IF ours = theirs THEN "up_to_date"
    ELSE IF base = ours THEN "fast_forward"
    ELSE "normal"

\* Mutant: a branch behind its remote is reported up to date.
MergeAnalysisBehindIsUpToDate(ours, theirs) ==
    LET base == MergeBase(ours, theirs) IN
    IF base = theirs \/ base = ours THEN "up_to_date" ELSE "normal"

\* Mutant: everything that is not up to date is reported fast-forwardable.
MergeAnalysisNoAncestorCheck(ours, theirs) ==
    LET base == MergeBase(ours, theirs) IN
    IF base = theirs THEN "up_to_date" ELSE "fast_forward"

\* Mutant: the fast-forward test comes first, so equal tips fast-forward.
MergeAnalysisFastForwardFirst(ours, theirs) ==
    LET base == MergeBase(ours, theirs) IN
    IF base = ours THEN "fast_forward"
    ELSE IF base = theirs THEN "up_to_date"
    ELSE "normal"

\* git_merge_analysis of HEAD's commit against one fetched commit.
MergeAnalysis(ours, theirs) ==
    LET base == MergeBase(ours, theirs) IN
    IF base = theirs THEN "up_to_date"
    ELSE IF base = ours THEN "fast_forward"
    ELSE "normal"

\* ------------------------------------------------------------------------
\* Names
\* ------------------------------------------------------------------------

\* Branches that exist on the remote or locally.
Branches == {"main", "dev"}

\* Names a reference lookup is made with: the branches, and "HEAD", the
\* shorthand libgit2 gives for a detached HEAD.
RefNames == Branches \cup {"HEAD"}

\* ------------------------------------------------------------------------
\* State
\* ------------------------------------------------------------------------

VARIABLES
    heads,       \* refs/heads/<name>          : RefNames -> Commits or Absent
    remotes,     \* refs/remotes/origin/<name> : Branches -> Commits or Absent
    originHead,  \* refs/remotes/origin/HEAD exists (symbolic, to origin/main)
    HEAD,        \* [kind, ref, oid]: symbolic to refs/heads/<ref>, or detached
    worktree,    \* the commit the working tree matches, Absent when modified
    origin,      \* [configured, url]: the remote named "origin"
    ssh_config,  \* the GitPuller's SshConfig
    env,         \* filesystem, agent, environment variables, git config
    last         \* the last call made and what it returned

vars == <<heads, remotes, originHead, HEAD, worktree, origin, ssh_config, env, last>>

SymbolicHead(b) == [kind |-> "sym", ref |-> b, oid |-> Absent]

DetachedHead(c) == [kind |-> "detached", ref |-> "", oid |-> c]

\* Mutant: the local lookup never finds the branch.
LocalRefNeverFound(h, name) == Absent

\* find_reference("refs/heads/<name>")
LocalRef(h, name) == h[name]

\* Mutant: the remote-tracking lookup never reports a missing reference.
RemoteRefExistsAlways(r, name) == TRUE

\* find_reference("refs/remotes/origin/<name>").is_ok(); origin/HEAD is
\* found even when the branch it names has no remote-tracking reference.
RemoteRefExists(r, name) ==
    IF name = "HEAD" THEN originHead ELSE r[name] # Absent

\* The commit refs/remotes/origin/<name> resolves to (peel_to_commit,
\* reference_to_annotated_commit), Absent when it does not resolve.
RemoteRef(r, name) ==
    IF name = "HEAD"
    THEN (IF originHead THEN r["main"] ELSE Absent)
    ELSE r[name]

\* The commit HEAD resolves to, Absent for an unborn branch.
HeadCommit(hd, h) == IF hd.kind = "detached" THEN hd.oid ELSE h[hd.ref]

\* repo.head() followed by Reference::shorthand().
RepoHead ==
    IF HEAD.kind = "detached"
    THEN [ok |-> TRUE, shorthand |-> "HEAD", oid |-> HEAD.oid]
    ELSE IF heads[HEAD.ref] = Absent
    THEN [ok |-> FALSE, shorthand |-> "", oid |-> Absent]
    ELSE [ok |-> TRUE, shorthand |-> HEAD.ref, oid |-> heads[HEAD.ref]]

\* ------------------------------------------------------------------------
\* Credentials
\* ------------------------------------------------------------------------

\* git2::CredentialType bits the callbacks test.
CredentialTypes == {"SSH_KEY", "USER_PASS_PLAINTEXT", "DEFAULT"}

\* Option<&str>: <<>> is None, <<s>> is Some(s).
UnwrapOr(opt, default) == IF opt = <<>> THEN default ELSE opt[1]

\* The callback returned Err.
NoCred == [kind |-> "none", username |-> "", secret |-> "", publickey |-> "", privatekey |-> ""]

AgentCred(user) ==
    [kind |-> "ssh_agent", username |-> user, secret |-> "", publickey |-> "", privatekey |-> ""]

DefaultCred ==
    [kind |-> "default", username |-> "", secret |-> "", publickey |-> "", privatekey |-> ""]

UserPassCred(user, pass) ==
    [kind |-> "userpass", username |-> user, secret |-> pass, publickey |-> "", privatekey |-> ""]

\* Path::with_extension("pub") on a key path without an extension.
WithExtensionPub(path) == path \o ".pub"

\* Cred::ssh_key(username, Some(pub) or None, private, None)
SshKeyCred(user, files, path) ==
    [kind |-> "ssh_key", username |-> user, secret |-> "",
     publickey |-> IF WithExtensionPub(path) \in files THEN WithExtensionPub(path) ELSE "",
     privatekey |-> path]

\* One step of a chain, as it is logged: the mechanism, the key path or
\* variable it was tried with, and the outcome ("ok", "failed", or "missing"
\* for a key file or variable that is not there).
Attempt(mechanism, subject, outcome) ==
    [mechanism |-> mechanism, subject |-> subject, outcome |-> outcome]

Outcome(ok) == IF ok THEN "ok" ELSE "failed"

\* Mutant: the key paths are walked from the last to the first.
RECURSIVE TryKeysBackwards(_, _, _, _)
TryKeysBackwards(paths, i, user, e) ==
    LET j == Len(paths) + 1 - i IN
    IF i > Len(paths) THEN [cred |-> NoCred, tried |-> <<>>]
    ELSE IF paths[j] \in e.files /\ paths[j] \in e.keyOk
    THEN [cred |-> SshKeyCred(user, e.files, paths[j]),
          tried |-> <<Attempt("key", paths[j], "ok")>>]
    ELSE LET rest == TryKeysBackwards(paths, i + 1, user, e) IN
         [cred |-> rest.cred,
          tried |-> <<Attempt("key", paths[j],
                              IF paths[j] \in e.files THEN "failed" ELSE "missing")>>
                    \o rest.tried]

\* The for loop over ssh_config.private_key_paths, from index i on.
RECURSIVE TryKeys(_, _, _, _)
TryKeys(paths, i, user, e) ==
    IF i > Len(paths) THEN [cred |-> NoCred, tried |-> <<>>]
    ELSE IF paths[i] \in e.files /\ paths[i] \in e.keyOk
    THEN [cred |-> SshKeyCred(user, e.files, paths[i]),
          tried |-> <<Attempt("key", paths[i], "ok")>>]
    ELSE LET rest == TryKeys(paths, i + 1, user, e) IN
         [cred |-> rest.cred,
          tried |-> <<Attempt("key", paths[i],
                              IF paths[i] \in e.files THEN "failed" ELSE "missing")>>
                    \o rest.tried]

\* Mutant: the default credential is requested whatever allowed_types holds.
SshCredentialsDefaultUnguarded(cfg, e, username_from_url, allowed_types) ==
    LET user == UnwrapOr(username_from_url, "git")
        askAgent == cfg.ssh_agent /\ "SSH_KEY" \in allowed_types
        agentLog == IF askAgent THEN <<Attempt("agent", "", Outcome(e.agentOk))>> ELSE <<>>
        keys == IF "SSH_KEY" \in allowed_types
                THEN TryKeys(cfg.private_key_paths, 1, user, e)
                ELSE [cred |-> NoCred, tried |-> <<>>]
        defaultLog == <<Attempt("default", "", Outcome(e.defaultOk))>>
    IN
    IF askAgent /\ e.agentOk
    THEN [cred |-> AgentCred(user), tried |-> agentLog, error |-> ""]
    ELSE IF keys.cred # NoCred
    THEN [cred |-> keys.cred, tried |-> agentLog \o keys.tried, error |-> ""]
    ELSE IF e.defaultOk
    THEN [cred |-> DefaultCred, tried |-> agentLog \o keys.tried \o defaultLog, error |-> ""]
    ELSE [cred |-> NoCred, tried |-> agentLog \o keys.tried \o defaultLog,
          error |-> "No valid credentials found"]

\* Mutant: a failure of the agent ends the resolution.
SshCredentialsAgentFatal(cfg, e, username_from_url, allowed_types) ==
    LET user == UnwrapOr(username_from_url, "git")
        askAgent == cfg.ssh_agent /\ "SSH_KEY" \in allowed_types
        agentLog == IF askAgent THEN <<Attempt("agent", "", Outcome(e.agentOk))>> ELSE <<>>
        keys == IF "SSH_KEY" \in allowed_types
                THEN TryKeys(cfg.private_key_paths, 1, user, e)
                ELSE [cred |-> NoCred, tried |-> <<>>]
        askDefault == "DEFAULT" \in allowed_types
        defaultLog == IF askDefault THEN <<Attempt("default", "", Outcome(e.defaultOk))>> ELSE <<>>
    IN
    IF askAgent /\ e.agentOk
    THEN [cred |-> AgentCred(user), tried |-> agentLog, error |-> ""]
    ELSE IF askAgent
    THEN [cred |-> NoCred, tried |-> agentLog, error |-> "No valid credentials found"]
    ELSE IF keys.cred # NoCred
    THEN [cred |-> keys.cred, tried |-> agentLog \o keys.tried, error |-> ""]
    ELSE IF askDefault /\ e.defaultOk
    THEN [cred |-> DefaultCred, tried |-> agentLog \o keys.tried \o defaultLog, error |-> ""]
    ELSE [cred |-> NoCred, tried |-> agentLog \o keys.tried \o defaultLog,
          error |-> "No valid credentials found"]

\* The closure SshConfig::credentials_callback returns, applied once.
SshCredentials(cfg, e, username_from_url, allowed_types) ==
    LET user == UnwrapOr(username_from_url, "git")
        askAgent == cfg.ssh_agent /\ "SSH_KEY" \in allowed_types
        agentLog == IF askAgent THEN <<Attempt("agent", "", Outcome(e.agentOk))>> ELSE <<>>
        keys == IF "SSH_KEY" \in allowed_types
                THEN TryKeys(cfg.private_key_paths, 1, user, e)
                ELSE [cred |-> NoCred, tried |-> <<>>]
        askDefault == "DEFAULT" \in allowed_types
        defaultLog == IF askDefault THEN <<Attempt("default", "", Outcome(e.defaultOk))>> ELSE <<>>
    IN
    IF askAgent /\ e.agentOk
    THEN [cred |-> AgentCred(user), tried |-> agentLog, error |-> ""]
    ELSE IF keys.cred # NoCred
    THEN [cred |-> keys.cred, tried |-> agentLog \o keys.tried, error |-> ""]
    ELSE IF askDefault /\ e.defaultOk
    THEN [cred |-> DefaultCred, tried |-> agentLog \o keys.tried \o defaultLog, error |-> ""]
    ELSE [cred |-> NoCred, tried |-> agentLog \o keys.tried \o defaultLog,
          error |-> "No valid credentials found"]

\* Mutant: GH_TOKEN is read before GITHUB_TOKEN.
TokenVarsGhFirst == <<"GH_TOKEN", "GITHUB_TOKEN", "GITHUB_ACCESS_TOKEN">>

\* The token variables, in the order https_credentials_callback reads them.
TokenVars == <<"GITHUB_TOKEN", "GH_TOKEN", "GITHUB_ACCESS_TOKEN">>

\* std::env::var(name).is_ok(): the variable is set and is valid Unicode.
EnvVarOk(e, name) == e.vars[name] \notin {"<unset>", "<not-unicode>"}

\* The three "if let Ok(token) = std::env::var(..)" blocks, from index i on.
RECURSIVE TryTokens(_, _, _)
TryTokens(i, user, e) ==
    IF i > Len(TokenVars) THEN [cred |-> NoCred, tried |-> <<>>]
    ELSE IF EnvVarOk(e, TokenVars[i])
    THEN [cred |-> UserPassCred(user, e.vars[TokenVars[i]]),
          tried |-> <<Attempt("token", TokenVars[i], "ok")>>]
    ELSE LET rest == TryTokens(i + 1, user, e) IN
         [cred |-> rest.cred,
          tried |-> <<Attempt("token", TokenVars[i], "missing")>> \o rest.tried]

\* get_git_config_with_credential_helpers: has_credential_helper.
\* Config::entries(glob) is Ok whether or not an entry matches.
HasCredentialHelper(e) == e.helperConfigured \/ TRUE

\* The closure https_credentials_callback returns, applied once.
HttpsCredentials(e, username_from_url, allowed_types) ==
    LET userpass == "USER_PASS_PLAINTEXT" \in allowed_types
        warnLog == IF userpass /\ ~HasCredentialHelper(e)
                   THEN <<Attempt("warning", "", "ok")>> ELSE <<>>
        helperLog == IF userpass
                     THEN warnLog \o <<Attempt("helper", "", Outcome(e.helper # NoCred))>>
                     ELSE <<>>
        tokens == IF userpass
                  THEN TryTokens(1, UnwrapOr(username_from_url, "git"), e)
                  ELSE [cred |-> NoCred, tried |-> <<>>]
        askDefault == "DEFAULT" \in allowed_types
        defaultLog == IF askDefault THEN <<Attempt("default", "", Outcome(e.defaultOk))>> ELSE <<>>
    IN
    IF userpass /\ e.helper # NoCred
    THEN [cred |-> e.helper, tried |-> helperLog, error |-> ""]
    ELSE IF tokens.cred # NoCred
    THEN [cred |-> tokens.cred, tried |-> helperLog \o tokens.tried, error |-> ""]
    ELSE IF askDefault /\ e.defaultOk
    THEN [cred |-> DefaultCred, tried |-> helperLog \o tokens.tried \o defaultLog, error |-> ""]
    ELSE [cred |-> NoCred, tried |-> helperLog \o tokens.tried \o defaultLog,
          error |-> "No HTTPS credentials found"]

\* One call of a credentials callback by the transport: its arguments and
\* what it returned.
Asked(username_from_url, allowed_types, r) ==
    [asked |-> TRUE, username_from_url |-> username_from_url,
     allowed_types |-> allowed_types,
     cred |-> r.cred, tried |-> r.tried, error |-> r.error]

\* The callback was not called.
NotAsked ==
    [asked |-> FALSE, username_from_url |-> <<>>, allowed_types |-> {},
     cred |-> NoCred, tried |-> <<>>, error |-> ""]

\* "https://" as characters.
HttpsPrefix == <<"h", "t", "t", "p", "s", ":", "/", "/">>

\* str::starts_with
StartsWith(s, prefix) ==
    Len(s) >= Len(prefix) /\ SubSeq(s, 1, Len(prefix)) = prefix

\* GitPuller::is_https_url
IsHttpsUrl(url) == StartsWith(url, HttpsPrefix)

\* ------------------------------------------------------------------------
\* Backend writes
\* ------------------------------------------------------------------------

\* Mutant: the fast-forward moves every existing local branch.
SetTargetEveryBranch(h, name, oid) ==
    [n \in DOMAIN h |-> IF h[n] # Absent THEN oid ELSE h[n]]

\* Mutant: the branch reference is not moved.
SetTargetKeepsOld(h, name, oid) == h

\* reference.set_target(oid) on refs/heads/<name>
SetTarget(h, name, oid) == [h EXCEPT ![name] = oid]

\* Mutant: the new branch is created at the root commit, not at `commit`.
CreateBranchAtRoot(h, name, commit) == [h EXCEPT ![name] = 1]

\* Mutant: no branch is created.
CreateBranchNothing(h, name, commit) == h

\* repo.branch(name, commit, false)
CreateBranch(h, name, commit) == [h EXCEPT ![name] = commit]

\* repo.set_head("refs/heads/<name>"): HEAD becomes symbolic to the branch.
SetHead(name) == SymbolicHead(name)

\* repo.checkout_head(force): the working tree matches HEAD's commit.
\* A failed checkout_head leaves the working tree as it was (fault
\* "checkout_head") or partly rewritten, matching no commit (fault
\* "checkout_partial").
CheckoutHead(hd, h) == HeadCommit(hd, h)

\* ------------------------------------------------------------------------
\* GitPuller::pull
\* ------------------------------------------------------------------------

\* The backend calls of pull that can fail for reasons outside the
\* repository state (I/O, locks, network), in program order.
PullFaults ==
    {"none", "open", "head", "find_remote", "fetchhead_foreach", "find_remote_ref",
     "annotated_commit", "merge_analysis", "find_local_ref", "set_target",
     "set_head", "checkout_head", "checkout_partial"}

\* What the remote end does during remote.fetch: the connection fails
\* ("down"), the fetch needs no credential ("anon"), or the credentials
\* callback is called with allowed_types and username_from_url and the
\* credential it returns is accepted or rejected.
Transport(kind, allowed, user, accept) ==
    [kind |-> kind, allowed |-> allowed, user |-> user, accept |-> accept]

\* Mutant: the fetch creates missing remote-tracking references and leaves
\* the existing ones where they were.
FetchKeepsKnown(r, srv) ==
    [b \in Branches |-> IF r[b] = Absent /\ srv[b] # Absent THEN srv[b] ELSE r[b]]

\* remote.fetch(&[]) with the default refspec
\* +refs/heads/*:refs/remotes/origin/*, no pruning: every branch the remote
\* has is written to its remote-tracking reference.
Fetch(r, srv) == [b \in Branches |-> IF srv[b] # Absent THEN srv[b] ELSE r[b]]

\* The path the GitClient was given.
RepoPath == "repo"

\* The result is not a CheckoutFailed.
NoCheckoutError == [branch |-> "", path |-> ""]

\* GitError::CheckoutFailed { branch, path, .. }
CheckoutFailed(branch, path) == [branch |-> branch, path |-> path]

\* No fetch has brought anything.
NotFetched == <<>>

\* The record kept of a call; `tips` is what its fetch, if any, was served.
Call(op, arg, result, step, analysis, chain, cb) ==
    [op |-> op, arg |-> arg, result |-> result, step |-> step,
     analysis |-> analysis, chain |-> chain, cb |-> cb, failed |-> NoCheckoutError,
     tips |-> NotFetched]

\* The steps of pull up to the fetch.
UpToFetch == {"open", "head", "shorthand", "find_remote", "fetch"}

\* pull returns `result` at `step`, having written the given references;
\* srv is what the remote served if the fetch succeeded.
PullReturns(result, step, analysis, chain, cb, r, h, hd, wt, srv) ==
    /\ last' = [Call("pull", "", result, step, analysis, chain, cb)
                  EXCEPT !.tips = IF step \in UpToFetch THEN NotFetched ELSE srv]
    /\ remotes' = r
    /\ heads' = h
    /\ HEAD' = hd
    /\ worktree' = wt
    /\ UNCHANGED <<originHead, origin, ssh_config, env>>

\* Mutant: the lookup of the remote succeeds without one configured.
FindRemoteAlways(o) == TRUE

\* repo.find_remote("origin").is_ok(), barring a fault.
FindRemote(o) == o.configured

\* A remote URL that is not valid UTF-8: remote.url() is None.
NotUtf8Url == <<"<not-utf8>">>

\* remote.url().unwrap_or("")
RemoteUrl(o) == IF o.url = NotUtf8Url THEN <<>> ELSE o.url

\* The credentials callback pull installs for origin's URL.
Chain == IF IsHttpsUrl(RemoteUrl(origin)) THEN "https" ELSE "ssh"

\* The result of the installed callback if the transport calls it.
Callback(tr) ==
    IF tr.kind # "auth" THEN NotAsked
    ELSE IF Chain = "https"
    THEN Asked(tr.user, tr.allowed, HttpsCredentials(env, tr.user, tr.allowed))
    ELSE Asked(tr.user, tr.allowed, SshCredentials(ssh_config, env, tr.user, tr.allowed))

\* Mutant: the fetch goes through although the callback returned Err.
FetchSucceedsWithoutCredential(tr) ==
    \/ tr.kind = "anon"
    \/ tr.kind = "auth" /\ tr.accept

\* remote.fetch returns Ok.
FetchSucceeds(tr) ==
    \/ tr.kind = "anon"
    \/ tr.kind = "auth" /\ Callback(tr).cred # NoCred /\ tr.accept

Pull(fault, tr, srv) ==
    LET head == RepoHead
        branch_name == head.shorthand
        chain == Chain
        cb == Callback(tr)
        fetchOk == FetchSucceeds(tr)
        fetched == Fetch(remotes, srv)
        theirs == RemoteRef(fetched, branch_name)
        analysis == MergeAnalysis(head.oid, theirs)
        moved == SetTarget(heads, branch_name, theirs)
    IN
    IF fault = "open"
    THEN PullReturns("OpenFailed", "open", "", "", NotAsked, remotes, heads, HEAD, worktree, srv)
    ELSE IF fault = "head" \/ ~head.ok
    THEN PullReturns("PullFailed", "head", "", "", NotAsked, remotes, heads, HEAD, worktree, srv)
    ELSE IF branch_name \notin RefNames
    THEN PullReturns("InvalidBranch", "shorthand", "", "", NotAsked, remotes, heads, HEAD, worktree, srv)
    ELSE IF fault = "find_remote" \/ ~FindRemote(origin)
    THEN PullReturns("PullFailed", "find_remote", "", "", NotAsked, remotes, heads, HEAD, worktree, srv)
    ELSE IF ~fetchOk
    THEN PullReturns("PullFailed", "fetch", "", chain, cb, remotes, heads, HEAD, worktree, srv)
    ELSE IF fault = "fetchhead_foreach"
    THEN PullReturns("PullFailed", "fetchhead_foreach", "", chain, cb, fetched, heads, HEAD, worktree, srv)
    ELSE IF fault = "find_remote_ref" \/ ~RemoteRefExists(fetched, branch_name)
    THEN PullReturns("PullFailed", "find_remote_ref", "", chain, cb, fetched, heads, HEAD, worktree, srv)
    ELSE IF fault = "annotated_commit" \/ theirs = Absent
    THEN PullReturns("PullFailed", "annotated_commit", "", chain, cb, fetched, heads, HEAD, worktree, srv)
    ELSE IF fault = "merge_analysis"
    THEN PullReturns("PullFailed", "merge_analysis", "", chain, cb, fetched, heads, HEAD, worktree, srv)
    ELSE IF analysis = "fast_forward"
    THEN IF fault = "find_local_ref" \/ LocalRef(heads, branch_name) = Absent
         THEN PullReturns("PullFailed", "find_local_ref", analysis, chain, cb,
                          fetched, heads, HEAD, worktree, srv)
         ELSE IF fault = "set_target"
         THEN PullReturns("PullFailed", "set_target", analysis, chain, cb,
                          fetched, heads, HEAD, worktree, srv)
         ELSE IF fault = "set_head"
         THEN PullReturns("PullFailed", "set_head", analysis, chain, cb,
                          fetched, moved, HEAD, worktree, srv)
         ELSE IF fault = "checkout_head"
         THEN PullReturns("PullFailed", "checkout_head", analysis, chain, cb,
                          fetched, moved, SetHead(branch_name), worktree, srv)
         ELSE IF fault = "checkout_partial"
         THEN PullReturns("PullFailed", "checkout_head", analysis, chain, cb,
                          fetched, moved, SetHead(branch_name), Absent, srv)
         ELSE PullReturns("Ok", "done", analysis, chain, cb,
                          fetched, moved, SetHead(branch_name),
                          CheckoutHead(SetHead(branch_name), moved), srv)
    ELSE IF analysis = "up_to_date"
    THEN PullReturns("Ok", "done", analysis, chain, cb, fetched, heads, HEAD, worktree, srv)
    ELSE PullReturns("MergeRequired", "done", analysis, chain, cb, fetched, heads, HEAD, worktree, srv)

\* ------------------------------------------------------------------------
\* GitCheckout::checkout_branch
\* ------------------------------------------------------------------------

CheckoutFaults ==
    {"none", "open", "find_local_ref", "peel_to_commit", "branch", "find_created_ref",
     "set_head", "checkout_head", "checkout_partial"}

\* repo.branch(name, commit, false): libgit2 refuses the name "HEAD" and,
\* without force, an existing branch.
BranchCreatable(h, name) == name # "HEAD" /\ h[name] = Absent

CheckoutReturns(branch_name, result, step, h, hd, wt) ==
    /\ last' = [Call("checkout_branch", branch_name, result, step, "", "", NotAsked)
                EXCEPT !.failed = IF result = "CheckoutFailed"
                                  THEN CheckoutFailed(branch_name, RepoPath)
                                  ELSE NoCheckoutError]
    /\ heads' = h
    /\ HEAD' = hd
    /\ worktree' = wt
    /\ UNCHANGED <<remotes, originHead, origin, ssh_config, env>>

\* Mutant: the working tree is checked out before HEAD is set.
CheckoutResolvedTreeFirst(branch_name, fault, h) ==
    IF fault = "checkout_head"
    THEN CheckoutReturns(branch_name, "CheckoutFailed", "checkout_head", h, HEAD, worktree)
    ELSE IF fault = "checkout_partial"
    THEN CheckoutReturns(branch_name, "CheckoutFailed", "checkout_head", h, HEAD, Absent)
    ELSE IF fault = "set_head"
    THEN CheckoutReturns(branch_name, "CheckoutFailed", "set_head",
                         h, HEAD, CheckoutHead(SetHead(branch_name), h))
    ELSE CheckoutReturns(branch_name, "Ok", "done",
                         h, SetHead(branch_name), CheckoutHead(SetHead(branch_name), h))

\* Set HEAD to the resolved reference and force-checkout it.
CheckoutResolved(branch_name, fault, h) ==
    IF fault = "set_head"
    THEN CheckoutReturns(branch_name, "CheckoutFailed", "set_head", h, HEAD, worktree)
    ELSE IF fault = "checkout_head"
    THEN CheckoutReturns(branch_name, "CheckoutFailed", "checkout_head",
                         h, SetHead(branch_name), worktree)
    ELSE IF fault = "checkout_partial"
    THEN CheckoutReturns(branch_name, "CheckoutFailed", "checkout_head",
                         h, SetHead(branch_name), Absent)
    ELSE CheckoutReturns(branch_name, "Ok", "done",
                         h, SetHead(branch_name), CheckoutHead(SetHead(branch_name), h))

CheckoutBranch(branch_name, fault) ==
    LET remote_commit == RemoteRef(remotes, branch_name)
        created == CreateBranch(heads, branch_name, remote_commit)
    IN
    IF fault = "open"
    THEN CheckoutReturns(branch_name, "OpenFailed", "open", heads, HEAD, worktree)
    ELSE IF LocalRef(heads, branch_name) # Absent
    THEN IF fault = "find_local_ref"
         THEN CheckoutReturns(branch_name, "CheckoutFailed", "find_local_ref",
                              heads, HEAD, worktree)
         ELSE CheckoutResolved(branch_name, fault, heads)
    ELSE IF RemoteRefExists(remotes, branch_name)
    THEN IF fault = "peel_to_commit" \/ remote_commit = Absent
         THEN CheckoutReturns(branch_name, "CheckoutFailed", "peel_to_commit",
                              heads, HEAD, worktree)
         ELSE IF fault = "branch" \/ ~BranchCreatable(heads, branch_name)
         THEN CheckoutReturns(branch_name, "CheckoutFailed", "branch", heads, HEAD, worktree)
         ELSE IF fault = "find_created_ref"
         THEN CheckoutReturns(branch_name, "CheckoutFailed", "find_created_ref",
                              created, HEAD, worktree)
         ELSE CheckoutResolved(branch_name, fault, created)
    ELSE CheckoutReturns(branch_name, "CheckoutFailed", "not_found", heads, HEAD, worktree)

\* ------------------------------------------------------------------------
\* Initial states and specifications
\* ------------------------------------------------------------------------

SshUrl == <<"g", "i", "t", "@", "h", ":", "r">>

HttpsUrl == <<"h", "t", "t", "p", "s", ":", "/", "/", "h", "/", "r">>

NoOrigin == [configured |-> FALSE, url |-> <<>>]

Origin(url) == [configured |-> TRUE, url |-> url]

NoCall == Call("none", "", "", "", "", "", NotAsked)

\* SshConfig::new(private_key_paths, known_hosts_path, ssh_agent)
SshConfigNew(private_key_paths, known_hosts_path, ssh_agent) ==
    [private_key_paths |-> private_key_paths,
     known_hosts_path |-> known_hosts_path,
     ssh_agent |-> ssh_agent]

KeyPaths == {"id_a", "id_b"}

TokenValues == {"<unset>", "<not-unicode>", "tokX", "tokY"}

Environment(files, keyOk, agentOk, defaultOk, helperConfigured, helper, tokens) ==
    [files |-> files, keyOk |-> keyOk, agentOk |-> agentOk, defaultOk |-> defaultOk,
     helperConfigured |-> helperConfigured, helper |-> helper, vars |-> tokens]

NoTokens == [v \in {TokenVars[i] : i \in 1..Len(TokenVars)} |-> "<unset>"]

\* The machine pull runs on in Spec: one usable key, second in the list,
\* no agent, GITHUB_TOKEN set.
FixedEnv ==
    Environment({"id_b", "id_b.pub"}, KeyPaths, FALSE, FALSE, FALSE, NoCred,
                [NoTokens EXCEPT !["GITHUB_TOKEN"] = "tokX"])

FixedSshConfig == SshConfigNew(<<"id_a", "id_b">>, "known_hosts", FALSE)

\* Repositories: main exists locally, dev may; a repository without an
\* origin has no remote-tracking references; HEAD is on a branch (born or
\* unborn) or detached at the tip of main.
Init ==
    /\ heads \in [RefNames -> Commits \cup {Absent}]
    /\ heads["main"] # Absent
    /\ heads["HEAD"] = Absent
    /\ origin \in {NoOrigin, Origin(SshUrl), Origin(HttpsUrl)}
    /\ remotes \in [Branches -> Commits \cup {Absent}]
    /\ originHead = origin.configured
    /\ ~origin.configured => remotes = [b \in Branches |-> Absent]
    /\ HEAD \in {SymbolicHead(b) : b \in Branches} \cup {DetachedHead(heads["main"])}
    /\ worktree \in {HeadCommit(HEAD, heads), Absent}
    /\ ssh_config = FixedSshConfig
    /\ env = FixedEnv
    /\ last = NoCall

\* What the remote end may do in Spec: be unreachable, ask for any kind of
\* credential and accept or reject it, or ask for the default credential
\* only (which this machine does not have).
PullTransports ==
    {Transport("down", {}, <<>>, FALSE)}
    \cup {Transport("auth", CredentialTypes, <<>>, a) : a \in BOOLEAN}
    \cup {Transport("auth", {"DEFAULT"}, <<>>, TRUE)}

\* The branch tips the remote may have at the time of a fetch.
ServerTips == [Branches -> Commits \cup {Absent}]

\* The faults pull can meet before it fetches, and after.
EarlyFaults == {"open", "head", "find_remote"}

ClassifyFaults == {"fetchhead_foreach", "find_remote_ref", "annotated_commit", "merge_analysis"}

FastForwardFaults ==
    {"find_local_ref", "set_target", "set_head", "checkout_head", "checkout_partial"}

\* The faults that can strike after a successful fetch of srv: those of the
\* fast-forward branch only when the analysis takes it.
LateFaults(srv) ==
    {"none"} \cup ClassifyFaults
    \cup (IF RepoHead.ok
             /\ MergeAnalysis(RepoHead.oid, RemoteRef(Fetch(remotes, srv), RepoHead.shorthand))
                = "fast_forward"
          THEN FastForwardFaults ELSE {})

\* The inputs of pull that differ in effect: a fault before the fetch, a
\* failing fetch, or a fetch that brings srv followed by no fault or a
\* later one.
PullInputs ==
    {<<f, Transport("down", {}, <<>>, FALSE), remotes>> : f \in EarlyFaults}
    \cup {<<"none", tr, remotes>> : tr \in {t \in PullTransports : ~FetchSucceeds(t)}}
    \cup UNION {{<<f, tr, srv>> : f \in LateFaults(srv),
                                  tr \in {t \in PullTransports : FetchSucceeds(t)}}
                : srv \in ServerTips}

\* The caller has the result of the previous call, if any, and makes the next.
Idle == last.op = "none"

PullStep == Idle /\ \E in \in PullInputs : Pull(in[1], in[2], in[3])

CheckoutStep == Idle /\ \E branch_name \in RefNames, fault \in CheckoutFaults :
                            CheckoutBranch(branch_name, fault)

\* GitClient::pull or GitClient::checkout_branch returns its Result.
Return ==
    /\ ~Idle
    /\ last' = NoCall
    /\ UNCHANGED <<heads, remotes, originHead, HEAD, worktree, origin, ssh_config, env>>

Next == PullStep \/ CheckoutStep \/ Return

Spec == Init /\ [][Next]_vars

\* ------------------------------------------------------------------------
\* The credential callbacks on their own
\* ------------------------------------------------------------------------

\* The transport calls the closure of SshConfig::credentials_callback.
SshCallback(username_from_url, allowed_types) ==
    LET r == SshCredentials(ssh_config, env, username_from_url, allowed_types) IN
    /\ last' = Call("ssh_callback", "", IF r.cred = NoCred THEN "Err" ELSE "Ok", "done",
                    "", "ssh", Asked(username_from_url, allowed_types, r))
    /\ UNCHANGED <<heads, remotes, originHead, HEAD, worktree, origin, ssh_config, env>>

\* The transport calls the closure of GitPuller::https_credentials_callback.
HttpsCallback(username_from_url, allowed_types) ==
    LET r == HttpsCredentials(env, username_from_url, allowed_types) IN
    /\ last' = Call("https_callback", "", IF r.cred = NoCred THEN "Err" ELSE "Ok", "done",
                    "", "https", Asked(username_from_url, allowed_types, r))
    /\ UNCHANGED <<heads, remotes, originHead, HEAD, worktree, origin, ssh_config, env>>

Usernames == {<<>>, <<"alice">>}

RECURSIVE SeqsUpTo(_, _)
SeqsUpTo(S, n) ==
    IF n = 0 THEN {<<>>}
    ELSE SeqsUpTo(S, n - 1)
         \cup {Append(q, x) : q \in {t \in SeqsUpTo(S, n - 1) : Len(t) = n - 1}, x \in S}

KeyFiles == KeyPaths \cup {WithExtensionPub(k) : k \in KeyPaths}

HelperCred == UserPassCred("helper-user", "helper-pass")

TokenNames == {TokenVars[i] : i \in 1..Len(TokenVars)}

\* Every SshConfig of up to MaxKeys paths on every filesystem, with the HTTPS
\* inputs fixed.
SshInit ==
    /\ ssh_config \in {SshConfigNew(ks, "known_hosts", ag) :
                          ks \in SeqsUpTo(KeyPaths, MaxKeys), ag \in BOOLEAN}
    /\ env \in {Environment(fs, ok, ag, df, FixedEnv.helperConfigured, FixedEnv.helper,
                             FixedEnv.vars) :
                   fs \in SUBSET KeyFiles, ok \in SUBSET KeyPaths,
                   ag \in BOOLEAN, df \in BOOLEAN}

\* Every setting of the credential helper and the token variables, with the
\* SSH inputs fixed.
HttpsInit ==
    /\ ssh_config = FixedSshConfig
    /\ env \in {Environment(FixedEnv.files, FixedEnv.keyOk, FixedEnv.agentOk, df, hc, h, tv) :
                   df \in BOOLEAN, hc \in BOOLEAN, h \in {NoCred, HelperCred},
                   tv \in [TokenNames -> TokenValues]}

CredInit ==
    /\ heads = [n \in RefNames |-> IF n = "main" THEN 1 ELSE Absent]
    /\ remotes = [b \in Branches |-> IF b = "main" THEN 1 ELSE Absent]
    /\ originHead = TRUE
    /\ HEAD = SymbolicHead("main")
    /\ worktree = 1
    /\ origin = Origin(SshUrl)
    /\ last = NoCall
    /\ (SshInit \/ HttpsInit)

SshCallbackStep ==
    Idle /\ \E u \in Usernames, a \in SUBSET CredentialTypes : SshCallback(u, a)

HttpsCallbackStep ==
    Idle /\ \E u \in Usernames, a \in SUBSET CredentialTypes : HttpsCallback(u, a)

CredNext == SshCallbackStep \/ HttpsCallbackStep \/ Return

CredSpec == CredInit /\ [][CredNext]_vars

\* ------------------------------------------------------------------------
\* pull over every kind of remote URL
\* ------------------------------------------------------------------------

SshSchemeUrl == <<"s", "s", "h", ":", "/", "/", "h", "/", "r">>

HttpUrl == <<"h", "t", "t", "p", ":", "/", "/", "h", "/", "r">>

UpperHttpsUrl == <<"H", "T", "T", "P", "S", ":", "/", "/", "h", "/", "r">>

EmptyUrl == <<>>

\* The URLs origin may be configured with.
Urls == {SshUrl, SshSchemeUrl, HttpUrl, HttpsUrl, UpperHttpsUrl, EmptyUrl, NotUtf8Url}

\* One repository, main checked out and up to date with origin, with any of
\* the URLs.
UrlInit ==
    /\ heads = [n \in RefNames |-> IF n = "main" THEN 1 ELSE Absent]
    /\ remotes = [b \in Branches |-> IF b = "main" THEN 1 ELSE Absent]
    /\ originHead = TRUE
    /\ HEAD = SymbolicHead("main")
    /\ worktree = 1
    /\ origin \in {Origin(url) : url \in Urls}
    /\ ssh_config = FixedSshConfig
    /\ env = FixedEnv
    /\ last = NoCall

UrlNext == PullStep \/ Return

UrlSpec == UrlInit /\ [][UrlNext]_vars

\* ------------------------------------------------------------------------
\* SshConfig on its own: construction, getters, mutators, validate
\* ------------------------------------------------------------------------

\* Directories that may exist on disk.
Directories == {"/ssh"}

\* Known-hosts paths a profile is constructed with: the empty path, the
\* root, a bare file name, a file in a directory that may exist and a file
\* in a directory that does not.
KnownHostsPaths == {"", "/", "known_hosts", "/ssh/known_hosts", "/gone/known_hosts"}

\* Path::parent: None for the empty path and the root, Some("") for a bare
\* file name.
PathParent(path) ==
    CASE path = "/ssh/known_hosts" -> <<"/ssh">>
      [] path = "/gone/known_hosts" -> <<"/gone">>
      [] path = "known_hosts" -> <<"">>
      [] OTHER -> <<>>

\* Path::exists; the empty path never exists.
Exists(e, path) == path \in e.files

\* SshConfig::private_key_paths
PrivateKeyPaths(cfg) == cfg.private_key_paths

\* SshConfig::known_hosts_path
KnownHostsPath(cfg) == cfg.known_hosts_path

\* SshConfig::ssh_agent_enabled
SshAgentEnabled(cfg) == cfg.ssh_agent

\* Mutant: the known-hosts directory is checked before the credentials.
ValidateKnownHostsFirst(cfg, e) ==
    LET has_keys == \E i \in 1..Len(cfg.private_key_paths) :
                        Exists(e, cfg.private_key_paths[i])
        parent == PathParent(cfg.known_hosts_path)
    IN
    IF parent # <<>> /\ ~Exists(e, parent[1]) THEN "SshDirectoryNotFound"
    ELSE IF ~has_keys /\ ~cfg.ssh_agent THEN "NoCredentialsAvailable"
    ELSE "Ok"

\* SshConfig::validate
Validate(cfg, e) ==
    LET has_keys == \E i \in 1..Len(cfg.private_key_paths) :
                        Exists(e, cfg.private_key_paths[i])
        parent == PathParent(cfg.known_hosts_path)
    IN
    IF ~has_keys /\ ~cfg.ssh_agent THEN "NoCredentialsAvailable"
    ELSE IF parent # <<>> /\ ~Exists(e, parent[1]) THEN "SshDirectoryNotFound"
    ELSE "Ok"

\* A call on the SshConfig returns `result`, leaving the profile as cfg.
ConfigReturns(op, arg, result, cfg) ==
    /\ last' = Call(op, arg, result, "done", "", "", NotAsked)
    /\ ssh_config' = cfg
    /\ UNCHANGED <<heads, remotes, originHead, HEAD, worktree, origin, env>>

\* Mutant: the new path is put in front of the others.
PushFront(paths, path) == <<path>> \o paths

\* Vec::push
Push(paths, path) == Append(paths, path)

AddPrivateKeyPath(path) ==
    ConfigReturns("add_private_key_path", path, "",
                  [ssh_config EXCEPT !.private_key_paths = Push(@, path)])

SetSshAgent(enabled) ==
    ConfigReturns("set_ssh_agent", enabled, "", [ssh_config EXCEPT !.ssh_agent = enabled])

ValidateCall == ConfigReturns("validate", "", Validate(ssh_config, env), ssh_config)

\* The profile just constructed by SshConfig::new, on a machine where any of
\* the key files and directories may exist; the repository is fixed, with
\* main checked out and up to date with origin.
ConfigInit ==
    /\ heads = [n \in RefNames |-> IF n = "main" THEN 1 ELSE Absent]
    /\ remotes = [b \in Branches |-> IF b = "main" THEN 1 ELSE Absent]
    /\ originHead = TRUE
    /\ HEAD = SymbolicHead("main")
    /\ worktree = 1
    /\ origin = Origin(SshUrl)
    /\ env \in {Environment(fs, KeyPaths, FALSE, FALSE, FALSE, NoCred, NoTokens) :
                   fs \in SUBSET (KeyPaths \cup Directories)}
    /\ \E ks \in SeqsUpTo(KeyPaths, MaxKeys), kh \in KnownHostsPaths, ag \in BOOLEAN :
          /\ ssh_config = SshConfigNew(ks, kh, ag)
          /\ last = Call("new", <<ks, kh, ag>>, "", "done", "", "", NotAsked)

AddPrivateKeyPathStep ==
    /\ Idle
    /\ Len(ssh_config.private_key_paths) < MaxKeys
    /\ \E path \in KeyPaths : AddPrivateKeyPath(path)

SetSshAgentStep == Idle /\ \E enabled \in BOOLEAN : SetSshAgent(enabled)

ValidateStep == Idle /\ ValidateCall

\* pull with the profile as it is, when the remote has nothing new.
ConfigPullStep == Idle /\ \E tr \in PullTransports : Pull("none", tr, remotes)

\* checkout_branch with the profile as it is.
ConfigCheckoutStep == Idle /\ \E branch_name \in RefNames : CheckoutBranch(branch_name, "none")

ConfigNext ==
    \/ AddPrivateKeyPathStep
    \/ SetSshAgentStep
    \/ ValidateStep
    \/ ConfigPullStep
    \/ ConfigCheckoutStep
    \/ Return

ConfigSpec == ConfigInit /\ [][ConfigNext]_vars

\* ------------------------------------------------------------------------
\* Two invocations on two repository paths, step by step
\* ------------------------------------------------------------------------
\* In ParSpec every repository variable is a function of the repository path
\* and `last` holds, for each path, the invocation running on it: its
\* arguments, its position in the code and its local variables.

Paths == {"repoA", "repoB"}

\* The repository at one path.
Repository(h, r, oh, hd, wt, o) ==
    [heads |-> h, remotes |-> r, originHead |-> oh, HEAD |-> hd, worktree |-> wt, origin |-> o]

RepositoryAt(p) ==
    Repository(heads[p], remotes[p], originHead[p], HEAD[p], worktree[p], origin[p])

\* Mutant: every invocation opens the repository at the same path.
OpenSamePath(repo_path) == "repoA"

\* Repository::open(repo_path): the handle is on the repository at repo_path.
Open(repo_path) == repo_path

\* repo.head() followed by Reference::shorthand(), on a handle.
RepoHeadIn(R) ==
    IF R.HEAD.kind = "detached"
    THEN [ok |-> TRUE, shorthand |-> "HEAD", oid |-> R.HEAD.oid]
    ELSE IF R.heads[R.HEAD.ref] = Absent
    THEN [ok |-> FALSE, shorthand |-> "", oid |-> Absent]
    ELSE [ok |-> TRUE, shorthand |-> R.HEAD.ref, oid |-> R.heads[R.HEAD.ref]]

\* find_reference("refs/remotes/origin/<name>").is_ok(), on a handle.
RemoteRefExistsIn(R, name) ==
    IF name = "HEAD" THEN R.originHead ELSE R.remotes[name] # Absent

\* The commit refs/remotes/origin/<name> resolves to, on a handle.
RemoteRefIn(R, name) ==
    IF name = "HEAD"
    THEN (IF R.originHead THEN R.remotes["main"] ELSE Absent)
    ELSE R.remotes[name]

\* An invocation: the call and its inputs (the fault it meets, what the
\* remote end does), the statement it is at, its locals and its result;
\* `start`, `cfg` and `overlapped` record the repository and SshConfig it
\* started with and whether it ran while the other invocation was under way.
Invocation(op, arg, fault, tr, srv, R, cfg) ==
    [op |-> op, arg |-> arg, fault |-> fault, tr |-> tr, srv |-> srv,
     pc |-> "open", result |-> "", branch_name |-> "", theirs |-> Absent,
     start |-> R, cfg |-> cfg, overlapped |-> FALSE]

\* The invocation returns `result`, leaving the repository as R.
Returns(R, I, result) == [repo |-> R, inv |-> [I EXCEPT !.pc = "done", !.result = result]]

\* The invocation goes on to statement pc.
Goto(R, I, pc) == [repo |-> R, inv |-> [I EXCEPT !.pc = pc]]

\* Mutant: when the chain chosen for the URL has no credential, the other
\* chain is asked.
CredentialForEitherChain(R, I, cfg, e) ==
    LET https == HttpsCredentials(e, I.tr.user, I.tr.allowed).cred
        ssh == SshCredentials(cfg, e, I.tr.user, I.tr.allowed).cred
    IN
    IF IsHttpsUrl(RemoteUrl(R.origin))
    THEN (IF https # NoCred THEN https ELSE ssh)
    ELSE (IF ssh # NoCred THEN ssh ELSE https)

\* The credential the installed callback gives the transport.
CredentialFor(R, I, cfg, e) ==
    IF IsHttpsUrl(RemoteUrl(R.origin))
    THEN HttpsCredentials(e, I.tr.user, I.tr.allowed).cred
    ELSE SshCredentials(cfg, e, I.tr.user, I.tr.allowed).cred

\* One statement of GitPuller::pull.
PullStatement(R, I, cfg, e) ==
    CASE I.pc = "open" ->
           IF I.fault = "open" THEN Returns(R, I, "OpenFailed") ELSE Goto(R, I, "head")
      [] I.pc = "head" ->
           IF I.fault = "head" \/ ~RepoHeadIn(R).ok THEN Returns(R, I, "PullFailed")
           ELSE IF RepoHeadIn(R).shorthand \notin RefNames THEN Returns(R, I, "InvalidBranch")
           ELSE Goto(R, [I EXCEPT !.branch_name = RepoHeadIn(R).shorthand], "find_remote")
      [] I.pc = "find_remote" ->
           IF I.fault = "find_remote" \/ ~FindRemote(R.origin)
           THEN Returns(R, I, "PullFailed")
           ELSE Goto(R, I, "fetch")
      [] I.pc = "fetch" ->
           IF \/ I.tr.kind = "anon"
              \/ I.tr.kind = "auth" /\ CredentialFor(R, I, cfg, e) # NoCred /\ I.tr.accept
           THEN Goto([R EXCEPT !.remotes = Fetch(@, I.srv)], I, "fetchhead_foreach")
           ELSE Returns(R, I, "PullFailed")
      [] I.pc = "fetchhead_foreach" ->
           IF I.fault = "fetchhead_foreach" THEN Returns(R, I, "PullFailed")
           ELSE Goto(R, I, "find_remote_ref")
      [] I.pc = "find_remote_ref" ->
           IF I.fault = "find_remote_ref" \/ ~RemoteRefExistsIn(R, I.branch_name)
           THEN Returns(R, I, "PullFailed")
           ELSE Goto(R, I, "annotated_commit")
      [] I.pc = "annotated_commit" ->
           IF I.fault = "annotated_commit" \/ RemoteRefIn(R, I.branch_name) = Absent
           THEN Returns(R, I, "PullFailed")
           ELSE Goto(R, [I EXCEPT !.theirs = RemoteRefIn(R, I.branch_name)], "merge_analysis")
      [] I.pc = "merge_analysis" ->
           IF I.fault = "merge_analysis" \/ ~RepoHeadIn(R).ok THEN Returns(R, I, "PullFailed")
           ELSE IF MergeAnalysis(RepoHeadIn(R).oid, I.theirs) = "fast_forward"
           THEN Goto(R, I, "find_local_ref")
           ELSE IF MergeAnalysis(RepoHeadIn(R).oid, I.theirs) = "up_to_date"
           THEN Returns(R, I, "Ok")
           ELSE Returns(R, I, "MergeRequired")
      [] I.pc = "find_local_ref" ->
           IF I.fault = "find_local_ref" \/ LocalRef(R.heads, I.branch_name) = Absent
           THEN Returns(R, I, "PullFailed")
           ELSE Goto(R, I, "set_target")
      [] I.pc = "set_target" ->
           IF I.fault = "set_target" THEN Returns(R, I, "PullFailed")
           ELSE Goto([R EXCEPT !.heads = SetTarget(@, I.branch_name, I.theirs)], I, "set_head")
      [] I.pc = "set_head" ->
           IF I.fault = "set_head" THEN Returns(R, I, "PullFailed")
           ELSE Goto([R EXCEPT !.HEAD = SetHead(I.branch_name)], I, "checkout_head")
      [] OTHER ->
           IF I.fault = "checkout_head" THEN Returns(R, I, "PullFailed")
           ELSE IF I.fault = "checkout_partial"
           THEN Returns([R EXCEPT !.worktree = Absent], I, "PullFailed")
           ELSE Returns([R EXCEPT !.worktree = CheckoutHead(R.HEAD, R.heads)], I, "Ok")

\* One statement of GitCheckout::checkout_branch.
CheckoutStatement(R, I) ==
    CASE I.pc = "open" ->
           IF I.fault = "open" THEN Returns(R, I, "OpenFailed") ELSE Goto(R, I, "resolve")
      [] I.pc = "resolve" ->
           IF LocalRef(R.heads, I.arg) # Absent
           THEN (IF I.fault = "find_local_ref" THEN Returns(R, I, "CheckoutFailed")
                 ELSE Goto(R, I, "set_head"))
           ELSE IF RemoteRefExistsIn(R, I.arg) THEN Goto(R, I, "peel_to_commit")
           ELSE Returns(R, I, "CheckoutFailed")
      [] I.pc = "peel_to_commit" ->
           IF I.fault = "peel_to_commit" \/ RemoteRefIn(R, I.arg) = Absent
           THEN Returns(R, I, "CheckoutFailed")
           ELSE Goto(R, [I EXCEPT !.theirs = RemoteRefIn(R, I.arg)], "branch")
      [] I.pc = "branch" ->
           IF I.fault = "branch" \/ ~BranchCreatable(R.heads, I.arg)
           THEN Returns(R, I, "CheckoutFailed")
           ELSE Goto([R EXCEPT !.heads = CreateBranch(@, I.arg, I.theirs)], I,
                     "find_created_ref")
      [] I.pc = "find_created_ref" ->
           IF I.fault = "find_created_ref" THEN Returns(R, I, "CheckoutFailed")
           ELSE Goto(R, I, "set_head")
      [] I.pc = "set_head" ->
           IF I.fault = "set_head" THEN Returns(R, I, "CheckoutFailed")
           ELSE Goto([R EXCEPT !.HEAD = SetHead(I.arg)], I, "checkout_head")
      [] OTHER ->
           IF I.fault = "checkout_head" THEN Returns(R, I, "CheckoutFailed")
           ELSE IF I.fault = "checkout_partial"
           THEN Returns([R EXCEPT !.worktree = Absent], I, "CheckoutFailed")
           ELSE Returns([R EXCEPT !.worktree = CheckoutHead(R.HEAD, R.heads)], I, "Ok")

\* The next statement of an invocation.
Statement(R, I, cfg, e) ==
    IF I.op = "pull" THEN PullStatement(R, I, cfg, e) ELSE CheckoutStatement(R, I)

\* The invocation run to its end with nothing else running.
RECURSIVE RunAlone(_, _, _, _)
RunAlone(R, I, cfg, e) ==
    IF I.pc = "done" THEN [repo |-> R, inv |-> I]
    ELSE RunAlone(Statement(R, I, cfg, e).repo, Statement(R, I, cfg, e).inv, cfg, e)

\* The invocation on path p executes its next statement on its handle.
Execute(p) ==
    LET q == Open(p)
        n == Statement(RepositoryAt(q), last[p], ssh_config, env)
        under_way == \E o \in DOMAIN last \ {p} : last[o].pc \notin {"open", "done"}
    IN
    /\ last[p].pc # "done"
    /\ heads' = [heads EXCEPT ![q] = n.repo.heads]
    /\ remotes' = [remotes EXCEPT ![q] = n.repo.remotes]
    /\ HEAD' = [HEAD EXCEPT ![q] = n.repo.HEAD]
    /\ worktree' = [worktree EXCEPT ![q] = n.repo.worktree]
    /\ last' = [last EXCEPT ![p] = [n.inv EXCEPT !.overlapped = @ \/ under_way]]
    /\ UNCHANGED <<originHead, origin, ssh_config, env>>

\* The calls made in ParSpec: pull meeting no fault or one in the
\* fast-forward, checkout_branch of either branch.
ParPulls(R, cfg) ==
    {Invocation("pull", "", f, Transport("auth", CredentialTypes, <<>>, TRUE),
                [b \in Branches |-> IF b = "main" THEN c ELSE Absent], R, cfg) :
        f \in {"none", "set_head"}, c \in Commits}

ParCheckouts(R, cfg) ==
    {Invocation("checkout_branch", b, f, Transport("down", {}, <<>>, FALSE),
                [x \in Branches |-> Absent], R, cfg) :
        b \in Branches, f \in {"none", "checkout_partial"}}

\* The repositories ParSpec starts from: main checked out at any commit,
\* origin/main at the root and origin/dev at a commit, no local dev.
ParRepositories ==
    {Repository([n \in RefNames |-> IF n = "main" THEN c ELSE Absent],
                [b \in Branches |-> IF b = "main" THEN 1 ELSE NumCommits],
                TRUE, SymbolicHead("main"), c, Origin(SshUrl)) : c \in Commits}

ParInit ==
    /\ ssh_config \in {FixedSshConfig, SshConfigNew(<<"id_b">>, "known_hosts", TRUE)}
    /\ env = FixedEnv
    /\ \E start \in [Paths -> ParRepositories] :
          /\ heads = [p \in Paths |-> start[p].heads]
          /\ remotes = [p \in Paths |-> start[p].remotes]
          /\ originHead = [p \in Paths |-> start[p].originHead]
          /\ HEAD = [p \in Paths |-> start[p].HEAD]
          /\ worktree = [p \in Paths |-> start[p].worktree]
          /\ origin = [p \in Paths |-> start[p].origin]
          /\ last \in {inv \in [Paths -> UNION {ParPulls(start[p], ssh_config)
                                                \cup ParCheckouts(start[p], ssh_config) :
                                                p \in Paths}] :
                          \A p \in Paths : inv[p].start = start[p]}

ExecutePull == \E p \in Paths : last[p].op = "pull" /\ Execute(p)

ExecuteCheckout == \E p \in Paths : last[p].op = "checkout_branch" /\ Execute(p)

ParNext == ExecutePull \/ ExecuteCheckout

ParSpec == ParInit /\ [][ParNext]_vars

\* ------------------------------------------------------------------------
\* Properties of pull and checkout_branch (specification Spec)
\* ------------------------------------------------------------------------

\* HEAD is symbolic and the branch it names exists.
HeadAttached == HEAD.kind = "sym" /\ heads[HEAD.ref] # Absent

\* This step is a call of pull that opened the repository and read HEAD
\* from a branch, and whose fetch wrote the branch's remote-tracking tip.
PullOnBranch ==
    /\ last'.op = "pull"
    /\ HeadAttached
    /\ last'.step \notin {"open", "head", "find_remote", "fetch"}
    /\ remotes'[HEAD.ref] # Absent

\* C1: when the current branch's tip is a strict ancestor of the fetched
\* remote-tracking tip, a pull that returns Ok has moved refs/heads/<branch>
\* to that tip, left HEAD on the same branch and made the working tree match
\* the tip.
C1_FastForwardMovesBranch ==
    [][(PullOnBranch /\ last'.result = "Ok"
        /\ StrictlyBehind(heads[HEAD.ref], remotes'[HEAD.ref]))
       => /\ heads'[HEAD.ref] = remotes'[HEAD.ref]
          /\ \A b \in RefNames \ {HEAD.ref} : heads'[b] = heads[b]
          /\ HEAD' = HEAD
          /\ worktree' = remotes'[HEAD.ref]]_vars

C1_Witness ==
    /\ last.op = "pull" /\ last.result = "Ok" /\ last.analysis = "fast_forward"
    /\ HeadAttached
    /\ heads[HEAD.ref] = remotes[HEAD.ref]
    /\ worktree = heads[HEAD.ref]

\* C2: when the current branch's tip and the fetched remote-tracking tip have
\* diverged, pull changes neither the local branches, HEAD nor the working
\* tree, and a pull that reaches the classification returns MergeRequired.
C2_DivergedIsMergeRequired ==
    [][(PullOnBranch /\ Diverged(heads[HEAD.ref], remotes'[HEAD.ref]))
       => /\ heads' = heads /\ HEAD' = HEAD /\ worktree' = worktree
          /\ last'.result \in {"MergeRequired", "PullFailed"}
          /\ last'.result = "PullFailed" => last'.step \in ClassifyFaults]_vars

C2_Witness ==
    /\ last.op = "pull" /\ last.result = "MergeRequired"
    /\ HeadAttached
    /\ remotes[HEAD.ref] # Absent
    /\ Diverged(heads[HEAD.ref], remotes[HEAD.ref])

\* C3: once HEAD is symbolic to an existing local branch it stays so through
\* every call of pull and checkout_branch, whatever sub-step fails; and after
\* a checkout_branch(b) that returns Ok, refs/heads/b exists and HEAD is
\* symbolic to it.
C3_HeadStaysAttached ==
    [][/\ HeadAttached => HeadAttached'
       /\ (last'.op = "checkout_branch" /\ last'.result = "Ok")
          => /\ heads'[last'.arg] # Absent
             /\ HEAD' = SymbolicHead(last'.arg)]_vars

C3_Witness ==
    /\ last.op = "checkout_branch" /\ last.result = "CheckoutFailed"
    /\ last.step = "checkout_head"
    /\ HEAD = SymbolicHead(last.arg)
    /\ HeadAttached
    /\ worktree # heads[HEAD.ref]

\* C4: a checkout_branch that returns Ok for a name that has a
\* remote-tracking reference and no local one has created refs/heads/<name>
\* at the remote-tracking reference's commit and left HEAD symbolic to it;
\* whatever it returns, it changes no other local branch and no
\* remote-tracking reference.
C4_CreatesOneLocalBranch ==
    [][(/\ last'.op = "checkout_branch"
        /\ heads[last'.arg] = Absent
        /\ RemoteRefExists(remotes, last'.arg))
       => /\ \A b \in RefNames \ {last'.arg} : heads'[b] = heads[b]
          /\ remotes' = remotes /\ originHead' = originHead
          /\ heads'[last'.arg] \in {Absent, RemoteRef(remotes, last'.arg)}
          /\ last'.result = "Ok"
             => /\ heads'[last'.arg] = RemoteRef(remotes, last'.arg)
                /\ heads'[last'.arg] # Absent
                /\ HEAD' = SymbolicHead(last'.arg)]_vars

C4_Witness ==
    /\ last.op = "checkout_branch" /\ last.result = "Ok" /\ last.arg = "dev"
    /\ heads["dev"] = remotes["dev"] /\ heads["dev"] # heads["main"]
    /\ HEAD = SymbolicHead("dev")

\* C5: a checkout_branch of a name with neither a local nor a
\* remote-tracking reference, on a repository that opens, returns
\* CheckoutFailed for "not found locally or remotely" and changes no
\* reference, HEAD or the working tree.
C5_NotFoundChangesNothing ==
    [][(/\ last'.op = "checkout_branch"
        /\ last'.step # "open"
        /\ heads[last'.arg] = Absent
        /\ last'.arg \in Branches => remotes[last'.arg] = Absent
        /\ last'.arg = "HEAD" => ~originHead)
       => /\ last'.result = "CheckoutFailed" /\ last'.step = "not_found"
          /\ UNCHANGED <<heads, remotes, originHead, HEAD, worktree>>]_vars

C5_Witness ==
    /\ last.op = "checkout_branch" /\ last.step = "not_found"
    /\ heads[last.arg] = Absent
    /\ last.arg \in Branches /\ remotes[last.arg] = Absent

\* C6: when the current branch's tip equals the fetched remote-tracking tip,
\* pull changes neither the local branches, HEAD nor the working tree, and
\* returns Ok if it reaches the classification; so a second pull that
\* fetches the same tips changes nothing either.
C6_UpToDateIsNoOp ==
    [][(PullOnBranch /\ heads[HEAD.ref] = remotes'[HEAD.ref])
       => /\ heads' = heads /\ HEAD' = HEAD /\ worktree' = worktree
          /\ last'.result \in {"Ok", "PullFailed"}
          /\ last'.result = "PullFailed" => last'.step \in ClassifyFaults
          /\ remotes' = remotes => UNCHANGED <<heads, remotes, originHead, HEAD, worktree>>]_vars

C6_Witness ==
    /\ last.op = "pull" /\ last.result = "Ok" /\ last.analysis = "up_to_date"
    /\ HeadAttached
    /\ heads[HEAD.ref] = remotes[HEAD.ref]
    /\ worktree # heads[HEAD.ref]

\* The local branch HEAD names, if any.
CurrentBranch == IF HEAD.kind = "sym" THEN {HEAD.ref} ELSE {}

\* C22: whatever a pull returns, it leaves every local branch other than the
\* current one where it was (none is moved, created or deleted), also when
\* its fetch rewrote the remote-tracking references of other branches; and a
\* pull from a branch that reaches the classification classifies the
\* current tip against the current branch's remote-tracking reference alone.
C22_PullTouchesCurrentBranchOnly ==
    [][last'.op = "pull"
       => /\ \A n \in RefNames \ CurrentBranch : heads'[n] = heads[n]
          /\ (HeadAttached /\ last'.analysis # "")
             => last'.analysis = MergeAnalysis(heads[HEAD.ref], remotes'[HEAD.ref])]_vars

C22_Witness ==
    /\ last.op = "pull" /\ last.result = "Ok" /\ last.analysis = "fast_forward"
    /\ HEAD = SymbolicHead("main")
    /\ heads["main"] = remotes["main"]
    /\ heads["dev"] # Absent /\ remotes["dev"] # Absent
    /\ StrictlyBehind(heads["dev"], remotes["dev"])
    /\ remotes["dev"] # remotes["main"]

\* C23: when the fetched remote-tracking tip of the current branch is a
\* strict ancestor of the local tip (local is ahead), pull changes neither
\* the local branches, HEAD nor the working tree; a pull that reaches the
\* classification classifies the pair as up to date and returns Ok, never
\* MergeRequired, and one that does not has failed in a step between the
\* fetch and the classification.
C23_LocalAheadIsUpToDate ==
    [][(PullOnBranch /\ StrictlyBehind(remotes'[HEAD.ref], heads[HEAD.ref]))
       => /\ heads' = heads /\ HEAD' = HEAD /\ worktree' = worktree
          /\ last'.result \in {"Ok", "PullFailed"}
          /\ last'.result = "PullFailed" => last'.step \in ClassifyFaults
          /\ last'.result = "Ok" => last'.analysis = "up_to_date"]_vars

C23_Witness ==
    /\ last.op = "pull" /\ last.result = "Ok" /\ last.analysis = "up_to_date"
    /\ HeadAttached
    /\ remotes[HEAD.ref] # Absent
    /\ StrictlyBehind(remotes[HEAD.ref], heads[HEAD.ref])
    /\ worktree = heads[HEAD.ref]

\* C24: a pull whose fetch succeeded has written every tip the remote
\* served to its remote-tracking reference (and left the others), whether it
\* then returns Ok up to date, Ok after a fast-forward, MergeRequired or a
\* later failure; returning to the caller changes no reference; and a
\* checkout_branch of a branch that has a remote-tracking reference and no
\* local one, if it returns Ok, has created the local branch at that
\* reference's commit.  So a checkout_branch issued right after the pull
\* creates the branch at the tip that pull fetched.
C24_CheckoutSeesFetchedTips ==
    [][/\ (last'.op = "pull" /\ last'.step \notin UpToFetch)
          => /\ \A b \in Branches :
                   remotes'[b] = IF last'.tips[b] # Absent THEN last'.tips[b] ELSE remotes[b]
             /\ last'.analysis = "up_to_date" => last'.result = "Ok"
             /\ last'.analysis = "normal" => last'.result = "MergeRequired"
       /\ last'.op = "none" => UNCHANGED <<heads, remotes, originHead, HEAD, worktree>>
       /\ (/\ last'.op = "checkout_branch" /\ last'.result = "Ok"
           /\ last'.arg \in Branches
           /\ heads[last'.arg] = Absent /\ remotes[last'.arg] # Absent)
          => /\ heads'[last'.arg] = remotes[last'.arg]
             /\ HEAD' = SymbolicHead(last'.arg)
             /\ worktree' = remotes[last'.arg]]_vars

\* A pull from main has returned MergeRequired and its fetch has moved
\* origin/dev to the tip the remote served, with no local dev yet.
C24_Witness ==
    /\ last.op = "pull" /\ last.result = "MergeRequired"
    /\ HEAD = SymbolicHead("main")
    /\ last.tips["dev"] # Absent /\ remotes["dev"] = last.tips["dev"]
    /\ heads["dev"] = Absent
    /\ remotes["dev"] # remotes["main"]

\* C10 (as claimed): a pull on a detached HEAD, once the repository is open
\* and HEAD is read, returns InvalidBranch and changes no reference.
C10_DetachedIsInvalidBranch ==
    [][(/\ last'.op = "pull"
        /\ HEAD.kind = "detached"
        /\ last'.step \notin {"open", "head"})
       => /\ last'.result = "InvalidBranch"
          /\ UNCHANGED <<heads, remotes, originHead, HEAD, worktree>>]_vars

\* C11: a pull on a repository without a remote named origin consults no
\* credential chain, fetches nothing and changes no reference, HEAD or the
\* working tree; once the repository is open and HEAD is read it returns
\* PullFailed from the remote lookup.
C11_NoOriginFailsBeforeFetch ==
    [][(last'.op = "pull" /\ ~origin.configured)
       => /\ last'.result \in {"OpenFailed", "PullFailed"}
          /\ last'.step \in {"open", "head", "find_remote"}
          /\ last'.step \notin {"open", "head"}
             => last'.result = "PullFailed" /\ last'.step = "find_remote"
          /\ last'.cb = NotAsked /\ last'.chain = ""
          /\ UNCHANGED <<heads, remotes, originHead, HEAD, worktree>>]_vars

C11_Witness ==
    /\ last.op = "pull" /\ ~origin.configured
    /\ last.result = "PullFailed" /\ last.step = "find_remote"
    /\ HeadAttached

\* C12: pull returns MergeRequired only when the analysis of HEAD's commit
\* against the fetched tip is neither up to date nor fast-forward, i.e. the
\* two have diverged; a fetch that fails (the remote is unreachable, the
\* credential is rejected, or the callback returns Err) makes pull return
\* PullFailed from the fetch step with no analysis made and the local
\* branches, HEAD and the working tree unchanged.
C12_FetchFailureIsPullFailed ==
    [][last'.op = "pull"
       => /\ last'.result = "MergeRequired"
             => /\ last'.analysis = "normal"
                /\ RepoHead.ok
                /\ Diverged(RepoHead.oid, RemoteRef(remotes', RepoHead.shorthand))
          /\ (last'.cb.asked /\ last'.cb.cred = NoCred) => last'.step = "fetch"
          /\ last'.step = "fetch"
             => /\ last'.result = "PullFailed"
                /\ last'.analysis = ""
                /\ UNCHANGED <<heads, remotes, originHead, HEAD, worktree>>]_vars

C12_Witness ==
    /\ last.op = "pull" /\ last.step = "fetch" /\ last.result = "PullFailed"
    /\ last.cb.asked /\ last.cb.cred = NoCred
    /\ HeadAttached
    /\ remotes[HEAD.ref] # Absent /\ StrictlyBehind(heads[HEAD.ref], remotes[HEAD.ref])

\* C18: a pull from a branch that takes the fast-forward path moves the
\* branch reference to the fetched tip, then sets HEAD to the branch, then
\* checks the working tree out.  A failure before the reference is moved
\* leaves branch, HEAD and working tree as they were; a failure of set_head
\* leaves the branch at the tip and HEAD and the working tree as they were; a
\* failure of the checkout leaves the branch at the tip, HEAD on the branch
\* and the working tree untouched or partly written; each returns PullFailed,
\* and only a pull that completes all three returns Ok.
C18_FastForwardNoRollback ==
    [][(last'.op = "pull" /\ last'.analysis = "fast_forward" /\ HeadAttached)
       => LET b == HEAD.ref
              tip == remotes'[b]
          IN
          /\ tip # Absent /\ StrictlyBehind(heads[b], tip)
          /\ \A o \in RefNames \ {b} : heads'[o] = heads[o]
          /\ last'.step \in {"find_local_ref", "set_target", "set_head", "checkout_head", "done"}
          /\ last'.result = IF last'.step = "done" THEN "Ok" ELSE "PullFailed"
          /\ heads'[b] = IF last'.step \in {"find_local_ref", "set_target"} THEN heads[b] ELSE tip
          /\ HEAD' = IF last'.step \in {"checkout_head", "done"} THEN SymbolicHead(b) ELSE HEAD
          /\ last'.step \in {"find_local_ref", "set_target", "set_head"} => worktree' = worktree
          /\ last'.step = "checkout_head" => worktree' \in {worktree, Absent}
          /\ last'.step = "done" => worktree' = tip]_vars

C18_Witness ==
    /\ last.op = "pull" /\ last.analysis = "fast_forward"
    /\ last.result = "PullFailed" /\ last.step = "set_head"
    /\ HeadAttached
    /\ heads[HEAD.ref] = remotes[HEAD.ref]
    /\ worktree \notin {Absent, heads[HEAD.ref]}

\* C19: a checkout_branch of a name whose local branch exists resolves to
\* that branch: it fails only if the lookup itself, set_head or checkout_head
\* fails, creates nothing
\* and leaves every local branch where it was, also when the
\* remote-tracking branch of that name points elsewhere; whatever the name,
\* no existing local branch is moved, and a branch appears only under the
\* requested name and only if it did not exist.
C19_LocalBranchFirst ==
    [][(last'.op = "checkout_branch" /\ last'.step # "open")
       => /\ heads[last'.arg] # Absent
             => /\ heads' = heads
                /\ last'.step \in {"find_local_ref", "set_head", "checkout_head", "done"}
                /\ last'.result = "Ok"
                   => HEAD' = SymbolicHead(last'.arg) /\ worktree' = heads[last'.arg]
          /\ \A b \in RefNames : heads[b] # Absent => heads'[b] = heads[b]
          /\ \A b \in RefNames : heads'[b] # heads[b] => b = last'.arg
          /\ remotes' = remotes]_vars

C19_Witness ==
    /\ last.op = "checkout_branch" /\ last.result = "Ok" /\ last.arg = "dev"
    /\ heads["dev"] # Absent /\ remotes["dev"] # Absent
    /\ heads["dev"] # remotes["dev"]
    /\ HEAD = SymbolicHead("dev")
    /\ worktree = heads["dev"]

\* The steps of checkout_branch that resolve the name to a reference.
ResolutionSteps ==
    {"find_local_ref", "peel_to_commit", "branch", "find_created_ref", "not_found"}

\* C20: a checkout_branch on a repository that opens returns Ok only after
\* resolving the name, setting HEAD and checking the tree out, in that
\* order; a failure of any of the three is a CheckoutFailed carrying the
\* requested branch name and the repository path; a resolution failure
\* leaves HEAD and the working tree as they were, a set_head failure leaves
\* HEAD and the working tree as they were, and a checkout failure happens
\* with HEAD already on the branch.
C20_CheckoutStopsAtFirstFailure ==
    [][(last'.op = "checkout_branch" /\ last'.step # "open")
       => /\ last'.result \in {"Ok", "CheckoutFailed"}
          /\ last'.step \in ResolutionSteps \cup {"set_head", "checkout_head", "done"}
          /\ last'.result = "Ok" <=> last'.step = "done"
          /\ last'.failed = IF last'.result = "CheckoutFailed"
                            THEN [branch |-> last'.arg, path |-> RepoPath]
                            ELSE NoCheckoutError
          /\ last'.step \in ResolutionSteps \cup {"set_head"}
             => HEAD' = HEAD /\ worktree' = worktree
          /\ last'.step = "checkout_head"
             => /\ heads'[last'.arg] # Absent
                /\ HEAD' = SymbolicHead(last'.arg)
                /\ worktree' \in {worktree, Absent}
          /\ last'.step = "done"
             => /\ heads'[last'.arg] # Absent
                /\ HEAD' = SymbolicHead(last'.arg)
                /\ worktree' = heads'[last'.arg]]_vars

C20_Witness ==
    /\ last.op = "checkout_branch" /\ last.result = "CheckoutFailed"
    /\ last.step = "set_head" /\ last.arg = "dev"
    /\ last.failed = [branch |-> "dev", path |-> RepoPath]
    /\ heads["dev"] # Absent
    /\ HEAD = SymbolicHead("main")
    /\ worktree = Absent

\* ------------------------------------------------------------------------
\* Properties of the chain selection (specification UrlSpec)
\* ------------------------------------------------------------------------

\* ASCII lower case of the letters of "HTTPS".
ToLower(c) ==
    CASE c = "H" -> "h"
      [] c = "T" -> "t"
      [] c = "P" -> "p"
      [] c = "S" -> "s"
      [] OTHER -> c

\* The URL's scheme is https; schemes compare without regard to case.
HasHttpsScheme(url) ==
    /\ Len(url) >= Len(HttpsPrefix)
    /\ [i \in 1..Len(HttpsPrefix) |-> ToLower(url[i])] = HttpsPrefix

\* C16 (as claimed): a pull that gets as far as the fetch has installed
\* exactly one chain, the HTTPS chain when the scheme of origin's URL is https
\* and the SSH chain for every other URL, and a credential the transport asks
\* for comes from that chain.
C16_HttpsSchemeSelectsHttpsChain ==
    (last.op = "pull" /\ last.step \notin {"open", "head", "find_remote"})
    => /\ last.chain \in {"ssh", "https"}
       /\ last.chain = "https" <=> HasHttpsScheme(origin.url)
       /\ last.cb.asked
          => last.cb.cred.kind
             \in (IF HasHttpsScheme(origin.url) THEN {"userpass", "none"} ELSE {"ssh_key", "none"})

\* ------------------------------------------------------------------------
\* Properties of the credential callbacks (specification CredSpec)
\* ------------------------------------------------------------------------

IsKeyAttempt(a) == a.mechanism = "key"

IsDefaultAttempt(a) == a.mechanism = "default"

IsAgentAttempt(a) == a.mechanism = "agent"

\* The key files of the profile that exist and that Cred::ssh_key accepts.
UsableKeyIndexes ==
    {i \in 1..Len(ssh_config.private_key_paths) :
        /\ ssh_config.private_key_paths[i] \in env.files
        /\ ssh_config.private_key_paths[i] \in env.keyOk}

Min(S) == CHOOSE x \in S : \A y \in S : x <= y

\* The SSH callback was called with the agent disabled.
SshCallNoAgent == last.op = "ssh_callback" /\ ~ssh_config.ssh_agent

\* C7: with the agent disabled and SSH_KEY allowed, the key paths are tried
\* in insertion order up to the first that exists and is accepted; missing
\* files are skipped; that first key is the credential returned, and then
\* neither the agent nor the default credential is requested.
C7_KeysInInsertionOrder ==
    (SshCallNoAgent /\ "SSH_KEY" \in last.cb.allowed_types)
    => LET paths == ssh_config.private_key_paths
           n == IF UsableKeyIndexes = {} THEN Len(paths) ELSE Min(UsableKeyIndexes)
           keyAttempts == SelectSeq(last.cb.tried, IsKeyAttempt)
       IN
       /\ Len(keyAttempts) = n
       /\ \A i \in 1..n :
             /\ keyAttempts[i].subject = paths[i]
             /\ keyAttempts[i].outcome = "missing" <=> paths[i] \notin env.files
             /\ keyAttempts[i].outcome = "ok" <=> i \in UsableKeyIndexes
       /\ SelectSeq(last.cb.tried, IsAgentAttempt) = <<>>
       /\ UsableKeyIndexes # {}
          => /\ last.result = "Ok"
             /\ last.cb.cred.kind = "ssh_key"
             /\ last.cb.cred.privatekey = paths[n]
             /\ last.cb.cred.username = UnwrapOr(last.cb.username_from_url, "git")
             /\ SelectSeq(last.cb.tried, IsDefaultAttempt) = <<>>

C7_Witness ==
    /\ SshCallNoAgent
    /\ last.cb.allowed_types = {"SSH_KEY", "DEFAULT"}
    /\ ssh_config.private_key_paths = <<"id_a", "id_b">>
    /\ env.files \cap KeyPaths = {"id_b"}
    /\ env.defaultOk
    /\ last.cb.cred.privatekey = "id_b"

\* No key path of the profile exists on disk.
NoKeyOnDisk ==
    \A i \in 1..Len(ssh_config.private_key_paths) :
        ssh_config.private_key_paths[i] \notin env.files

HttpsCallNoHelper ==
    /\ last.op = "https_callback"
    /\ "USER_PASS_PLAINTEXT" \in last.cb.allowed_types
    /\ env.helper = NoCred

\* The declared priority of the token variables.
DeclaredTokenOrder == <<"GITHUB_TOKEN", "GH_TOKEN", "GITHUB_ACCESS_TOKEN">>

\* The credential the callback must return when the first variable of the
\* declared order that satisfies Wins holds the token.
FirstTokenWins(Wins(_)) ==
    LET set == {i \in 1..Len(DeclaredTokenOrder) : Wins(env.vars[DeclaredTokenOrder[i]])} IN
    set # {}
    => /\ last.result = "Ok"
       /\ last.cb.cred = UserPassCred(UnwrapOr(last.cb.username_from_url, "git"),
                                      env.vars[DeclaredTokenOrder[Min(set)]])

IsSet(value) == value # "<unset>"

IsSetAndUnicode(value) == value \notin {"<unset>", "<not-unicode>"}

\* C9 (as claimed): the first token variable that is set, in the order
\* GITHUB_TOKEN, GH_TOKEN, GITHUB_ACCESS_TOKEN, supplies the password.
C9_FirstSetTokenWins == HttpsCallNoHelper => FirstTokenWins(IsSet)

\* C9 (amended): the first token variable that is set to valid Unicode, in
\* the order GITHUB_TOKEN, GH_TOKEN, GITHUB_ACCESS_TOKEN, supplies the
\* password of a user/password credential whose username is the URL's
\* username or "git"; a variable that is set but not valid Unicode is passed
\* over like an unset one.
C9_FirstReadableTokenWins == HttpsCallNoHelper => FirstTokenWins(IsSetAndUnicode)

C9_Witness ==
    /\ HttpsCallNoHelper
    /\ env.vars["GITHUB_TOKEN"] = "tokX" /\ env.vars["GH_TOKEN"] = "tokY"
    /\ last.cb.username_from_url = <<>>
    /\ last.cb.cred = UserPassCred("git", "tokX")

\* The steps of the SSH chain that apply to this call, in the declared order:
\* the agent if it is enabled and SSH_KEY is allowed, every key path if
\* SSH_KEY is allowed, the default credential if DEFAULT is allowed.
SshApplicableSteps ==
    LET paths == ssh_config.private_key_paths
        allowed == last.cb.allowed_types
    IN
    (IF ssh_config.ssh_agent /\ "SSH_KEY" \in allowed THEN <<[mechanism |-> "agent", subject |-> ""]>>
     ELSE <<>>)
    \o (IF "SSH_KEY" \in allowed
        THEN [i \in 1..Len(paths) |-> [mechanism |-> "key", subject |-> paths[i]]]
        ELSE <<>>)
    \o (IF "DEFAULT" \in allowed THEN <<[mechanism |-> "default", subject |-> ""]>> ELSE <<>>)

\* The step obtains a credential on this machine.
SshStepSucceeds(step) ==
    CASE step.mechanism = "agent" -> env.agentOk
      [] step.mechanism = "key" -> step.subject \in env.files /\ step.subject \in env.keyOk
      [] OTHER -> env.defaultOk

\* The credential a successful step yields.
SshStepCredKind(step) ==
    CASE step.mechanism = "agent" -> "ssh_agent"
      [] step.mechanism = "key" -> "ssh_key"
      [] OTHER -> "default"

HttpsRank(mechanism) ==
    CASE mechanism = "warning" -> 0
      [] mechanism = "helper" -> 1
      [] mechanism = "token" -> 2
      [] OTHER -> 3

\* Some token variable can be read.
SomeTokenReadable == \E v \in TokenNames : IsSetAndUnicode(env.vars[v])

\* The HTTPS callback consults helper, token variables and default in that
\* order; the helper's credential wins over a token; without
\* USER_PASS_PLAINTEXT neither helper nor tokens are consulted; it returns
\* Err only if nothing was obtained and default is disallowed or fails.
HttpsChainOrdered ==
    LET tried == last.cb.tried
        userpass == "USER_PASS_PLAINTEXT" \in last.cb.allowed_types
        askDefault == "DEFAULT" \in last.cb.allowed_types
        helperTried == SelectSeq(tried, LAMBDA a : a.mechanism = "helper")
        tokenTried == SelectSeq(tried, LAMBDA a : a.mechanism = "token")
    IN
    /\ \A i, j \in 1..Len(tried) :
          i < j => /\ HttpsRank(tried[i].mechanism) <= HttpsRank(tried[j].mechanism)
                   /\ tried[i].outcome # "ok" \/ tried[i].mechanism = "warning"
    /\ Len(helperTried) = IF userpass THEN 1 ELSE 0
    /\ ~userpass => tokenTried = <<>>
    /\ (userpass /\ env.helper # NoCred)
       => /\ last.result = "Ok" /\ last.cb.cred = env.helper
          /\ tokenTried = <<>>
    /\ (userpass /\ env.helper = NoCred /\ SomeTokenReadable)
       => last.result = "Ok" /\ last.cb.cred.kind = "userpass"
    /\ last.result = "Err"
       <=> /\ ~userpass \/ (env.helper = NoCred /\ ~SomeTokenReadable)
           /\ ~askDefault \/ ~env.defaultOk

\* With no credential helper configured the callback emits the advisory
\* warning.
HttpsWarnsWhenUnconfigured ==
    ("USER_PASS_PLAINTEXT" \in last.cb.allowed_types /\ ~env.helperConfigured)
    => \E i \in 1..Len(last.cb.tried) : last.cb.tried[i].mechanism = "warning"

\* C17 (as claimed): the HTTPS callback consults the credential helper, the
\* token variables and the default credential in that order, the helper's
\* credential winning over a token; an unconfigured helper produces the
\* advisory warning and the chain goes on; without USER_PASS_PLAINTEXT
\* neither helper nor tokens are consulted; the chain fails only if default
\* is disallowed or fails too.
C17_HttpsChainOrderWithWarning ==
    last.op = "https_callback" => (HttpsChainOrdered /\ HttpsWarnsWhenUnconfigured)

\* ------------------------------------------------------------------------
\* Properties of SshConfig (specification ConfigSpec)
\* ------------------------------------------------------------------------

\* No key path of the profile exists on disk and the agent is disabled.
NoCredentialSource ==
    /\ \A i \in 1..Len(ssh_config.private_key_paths) :
          ssh_config.private_key_paths[i] \notin env.files
    /\ ~ssh_config.ssh_agent

\* The known-hosts path has a parent and the parent is not on disk.
KnownHostsParentMissing ==
    /\ PathParent(ssh_config.known_hosts_path) # <<>>
    /\ PathParent(ssh_config.known_hosts_path)[1] \notin env.files

ValidationErrors == {"NoCredentialsAvailable", "SshDirectoryNotFound"}

\* C13: validate returns NoCredentialsAvailable exactly when no key path of
\* the profile exists on disk and the agent is disabled; otherwise
\* SshDirectoryNotFound exactly when the known-hosts path has a parent that
\* does not exist; otherwise Ok, whether or not the known-hosts file exists.
\* Construction, pull and checkout_branch never return a validation error.
C13_ValidateOnDemand ==
    /\ last.op = "validate"
       => /\ last.result = "NoCredentialsAvailable" <=> NoCredentialSource
          /\ last.result = "SshDirectoryNotFound"
             <=> (~NoCredentialSource /\ KnownHostsParentMissing)
          /\ last.result = "Ok" <=> (~NoCredentialSource /\ ~KnownHostsParentMissing)
          /\ ssh_config.known_hosts_path \notin env.files
    /\ last.op \in {"new", "pull", "checkout_branch"}
       => last.result \notin ValidationErrors

C13_Witness ==
    /\ last.op = "validate" /\ last.result = "NoCredentialsAvailable"
    /\ ssh_config.private_key_paths # <<>>
    /\ KnownHostsParentMissing

\* C14: add_private_key_path(p) appends p to the key paths and leaves the
\* known-hosts path and the agent flag alone; set_ssh_agent(e) sets the
\* agent flag and leaves the paths alone; no other call changes the profile;
\* right after construction the getters return the arguments of new.
C14_OnlyMutatorsChangeConfig ==
    [][/\ last.op = "new"
          => /\ PrivateKeyPaths(ssh_config) = last.arg[1]
             /\ KnownHostsPath(ssh_config) = last.arg[2]
             /\ SshAgentEnabled(ssh_config) = last.arg[3]
       /\ last'.op = "add_private_key_path"
          => /\ Len(PrivateKeyPaths(ssh_config')) = Len(PrivateKeyPaths(ssh_config)) + 1
             /\ PrivateKeyPaths(ssh_config')[Len(PrivateKeyPaths(ssh_config'))] = last'.arg
             /\ \A i \in 1..Len(PrivateKeyPaths(ssh_config)) :
                   PrivateKeyPaths(ssh_config')[i] = PrivateKeyPaths(ssh_config)[i]
             /\ KnownHostsPath(ssh_config') = KnownHostsPath(ssh_config)
             /\ SshAgentEnabled(ssh_config') = SshAgentEnabled(ssh_config)
       /\ last'.op = "set_ssh_agent"
          => /\ SshAgentEnabled(ssh_config') = last'.arg
             /\ PrivateKeyPaths(ssh_config') = PrivateKeyPaths(ssh_config)
             /\ KnownHostsPath(ssh_config') = KnownHostsPath(ssh_config)
       /\ last'.op \notin {"add_private_key_path", "set_ssh_agent"}
          => ssh_config' = ssh_config]_vars

C14_Witness ==
    /\ last.op = "add_private_key_path" /\ last.arg = "id_b"
    /\ ssh_config.private_key_paths = <<"id_a", "id_b">>
    /\ ssh_config.ssh_agent
    /\ ssh_config.known_hosts_path = "/ssh/known_hosts"

\* ------------------------------------------------------------------------
\* Properties of concurrent invocations (specification ParSpec)
\* ------------------------------------------------------------------------

\* The invocation on p has returned what it returns when run alone from the
\* repository it started on, and has left the repository as that run does.
AsRunAlone(p) ==
    LET alone == RunAlone(last[p].start, [last[p] EXCEPT !.pc = "open"], last[p].cfg, env) IN
    /\ last[p].result = alone.inv.result
    /\ heads[p] = alone.repo.heads
    /\ remotes[p] = alone.repo.remotes
    /\ HEAD[p] = alone.repo.HEAD
    /\ worktree[p] = alone.repo.worktree

\* C21: however the statements of two invocations on different repository
\* paths interleave, once both have returned each has returned the result,
\* and left its repository in the state, of running it alone (and so of
\* running the two one after the other); a repository nobody has touched yet
\* is as it started; and the shared SshConfig is the one both started with.
C21_InterleavingIsSequential ==
    /\ \A p \in Paths : ssh_config = last[p].cfg
    /\ \A p \in Paths : last[p].pc = "open" => RepositoryAt(p) = last[p].start
    /\ (\A p \in Paths : last[p].pc = "done") => \A p \in Paths : AsRunAlone(p)

C21_Witness ==
    /\ \A p \in Paths : last[p].pc = "done" /\ last[p].overlapped /\ last[p].result = "Ok"
    /\ last["repoA"].op = "pull" /\ heads["repoA"]["main"] # last["repoA"].start.heads["main"]
    /\ last["repoB"].op = "checkout_branch" /\ last["repoB"].arg = "dev"
    /\ heads["repoB"]["dev"] # Absent
    /\ HEAD["repoB"] = SymbolicHead("dev")

\* ------------------------------------------------------------------------
\* One pull under every SshConfig, environment and URL (specification
\* ChainSpec) and the independence of the two chains
\* ------------------------------------------------------------------------

HttpPrefix == <<"h", "t", "t", "p", ":", "/", "/">>

\* The URL is served by the HTTP(S) transport, which the backend picks by
\* the URL's prefix without regard to case.
IsHttpTransport(url) ==
    \/ HasHttpsScheme(url)
    \/ /\ Len(url) >= Len(HttpPrefix)
       /\ [i \in 1..Len(HttpPrefix) |-> ToLower(url[i])] = HttpPrefix

\* What the remote end of remote.fetch asks for: user and password, possibly
\* the default credential, over HTTP(S); an SSH key, possibly a password,
\* over SSH; nothing for a URL no transport takes.
TransportsFor(url) ==
    IF url \in {EmptyUrl, NotUtf8Url}
    THEN {Transport("down", {}, <<>>, FALSE)}
    ELSE IF IsHttpTransport(url)
    THEN {Transport("auth", a, <<>>, TRUE) :
             a \in {{"USER_PASS_PLAINTEXT"}, {"USER_PASS_PLAINTEXT", "DEFAULT"}}}
    ELSE {Transport("auth", a, <<"git">>, TRUE) :
             a \in {{"SSH_KEY"}, {"SSH_KEY", "USER_PASS_PLAINTEXT"}}}

\* SshConfig values: no key or one, the agent on or off.
ChainConfigs ==
    {SshConfigNew(ks, "known_hosts", ag) : ks \in {<<>>, <<"id_b">>}, ag \in BOOLEAN}

\* Machines: the key's files present or not, an agent and a default
\* credential available or not, a credential helper answering or not,
\* GITHUB_TOKEN set or not.
ChainEnvironments ==
    {Environment(files, KeyPaths, agentOk, defaultOk, FALSE, helper, tokens) :
        files \in {{}, {"id_b", WithExtensionPub("id_b")}},
        agentOk \in BOOLEAN, defaultOk \in BOOLEAN,
        helper \in {NoCred, HelperCred},
        tokens \in {NoTokens, [NoTokens EXCEPT !["GITHUB_TOKEN"] = "tokX"]}}

\* The repository pull runs on in ChainSpec: main checked out one commit
\* behind what the remote serves.
ChainRepository(url) ==
    Repository([n \in RefNames |-> IF n = "main" THEN 1 ELSE Absent],
               [b \in Branches |-> IF b = "main" THEN 1 ELSE Absent],
               TRUE, SymbolicHead("main"), 1, Origin(url))

ChainInit ==
    /\ ssh_config \in ChainConfigs
    /\ env \in ChainEnvironments
    /\ \E url \in Urls : \E tr \in TransportsFor(url) :
          LET R == ChainRepository(url) IN
          /\ heads = [p \in {"repoA"} |-> R.heads]
          /\ remotes = [p \in {"repoA"} |-> R.remotes]
          /\ originHead = [p \in {"repoA"} |-> R.originHead]
          /\ HEAD = [p \in {"repoA"} |-> R.HEAD]
          /\ worktree = [p \in {"repoA"} |-> R.worktree]
          /\ origin = [p \in {"repoA"} |-> R.origin]
          /\ last = [p \in {"repoA"} |->
                        Invocation("pull", "", "none", tr,
                                   [b \in Branches |-> IF b = "main" THEN 2 ELSE Absent],
                                   R, ssh_config)]

ChainNext == Execute("repoA")

ChainSpec == ChainInit /\ [][ChainNext]_vars

\* What pull returns and how it leaves the repository.
PullOutcome(R, I, cfg, e) ==
    LET r == RunAlone(R, [I EXCEPT !.pc = "open"], cfg, e) IN
    [result |-> r.inv.result, repo |-> r.repo]

\* e2 differs from e at most in what only the SSH chain reads.
SameHttpsInputs(e, e2) ==
    /\ e2.helperConfigured = e.helperConfigured /\ e2.helper = e.helper
    /\ e2.vars = e.vars /\ e2.defaultOk = e.defaultOk

\* e2 differs from e at most in what only the HTTPS chain reads.
SameSshInputs(e, e2) ==
    /\ e2.files = e.files /\ e2.keyOk = e.keyOk
    /\ e2.agentOk = e.agentOk /\ e2.defaultOk = e.defaultOk

\* C25: a pull that has returned has returned the result, and left the
\* repository in the state, that it would under any other input of the
\* chain it does not use.  For a remote whose URL scheme is https: under
\* any other SshConfig (key paths, agent flag), whether or not an agent
\* answers and whatever key files exist.  For any other remote: whatever the
\* credential helper answers and whatever the token variables hold.
C25_ChainsAreIndependent ==
    LET I == last["repoA"]
        here == [result |-> I.result, repo |-> RepositoryAt("repoA")]
    IN
    I.pc = "done"
    => IF HasHttpsScheme(RemoteUrl(I.start.origin))
       THEN \A cfg2 \in ChainConfigs :
               \A e2 \in {e \in ChainEnvironments : SameHttpsInputs(env, e)} :
                   PullOutcome(I.start, I, cfg2, e2) = here
       ELSE \A e2 \in {e \in ChainEnvironments : SameSshInputs(env, e)} :
               PullOutcome(I.start, I, ssh_config, e2) = here

\* A pull from an https remote has failed for want of an HTTPS credential
\* although the SshConfig has a key that exists and an agent that answers.
C25_Witness ==
    /\ last["repoA"].pc = "done" /\ last["repoA"].result = "PullFailed"
    /\ IsHttpsUrl(RemoteUrl(origin["repoA"]))
    /\ ssh_config.ssh_agent /\ env.agentOk
    /\ ssh_config.private_key_paths = <<"id_b">> /\ "id_b" \in env.files
    /\ env.helper = NoCred /\ ~EnvVarOk(env, "GITHUB_TOKEN")
    /\ heads["repoA"]["main"] = 1

====
